---- MODULE Spec2Model ----
(***************************************************************************)
(* Model of hospitals.ipynb: an incremental sync of the CMS catalog.       *)
(*                                                                         *)
(* main() loads metadata.json, fetches the catalog listing, keeps the      *)
(* datasets whose name contains THEME, and submits one                     *)
(* download_and_process task per kept dataset to a ThreadPoolExecutor.     *)
(* The tasks share one in-memory metadata dict and each rewrites           *)
(* metadata.json after setting its watermark, with no lock.                *)
(*                                                                         *)
(* Representation.                                                         *)
(*  - A timestamp text is [s, t]: s is the date/time separator character   *)
(*    and t the instant.  The catalog sends s = "T"; str(datetime) writes  *)
(*    s = " ".                                                             *)
(*  - A value held in last_run is [kind, s, t]: kind "datetime" for an     *)
(*    object built by strptime, kind "str" for a JSON string.              *)
(*  - The in-memory last_run dict is the sequence of its items in          *)
(*    insertion order (the order json.dump iterates it in).                *)
(*  - metadata.json is a sequence of tokens: the header up to the opening  *)
(*    brace of last_run, one token per item, the item separator, and the   *)
(*    closing footer.  Each task writes through its own file object, whose *)
(*    buffer reaches the file at offset 0 when the with-block closes it.   *)
(*  - Tasks are named by the position of their dataset in the listing.     *)
(*  - The default worker count of ThreadPoolExecutor (min(32, cpus+4)) is  *)
(*    above the number of tasks of the listings modelled here, so every    *)
(*    submitted task may start at once.                                    *)
(***************************************************************************)
EXTENDS Integers, Sequences, FiniteSets, TLC

\* ------------------------------------------------------------------ bounds
MaxTime == 2    \* last_modified instants are 1..MaxTime
MaxRuns == 2    \* number of successive runs of main()
MaxNameLen == 4 \* column names given to to_snake_case have up to MaxNameLen characters

\* ----------------------------------------------------------- configuration
THEME == <<"H","o","s","p","i","t","a","l","s">>

\* Catalog listings the API may return (response.json()['items']), as ids and
\* names; each dataset's last_modified is the variable remote.
ListingA ==
  << [id |-> "d1", name |-> <<"H","o","s","p","i","t","a","l","s"," ","I","n","f","o">>],
     [id |-> "d2", name |-> <<"N","u","r","s","i","n","g"," ","H","o","m","e","s">>],
     [id |-> "d3", name |-> <<"R","U","R","A","L"," ","H","O","S","P","I","T","A","L","S">>],
     [id |-> "d4", name |-> <<"h","o","s","p","i","t","a","l","s"," ","-"," ","a","c","u","t","e">>] >>

ListingB ==
  << [id |-> "d1", name |-> <<"H","o","s","p","i","t","a","l"," ","G","e","n","e","r","a","l"," ","I","n","f","o">>],
     [id |-> "d2", name |-> <<"N","u","r","s","i","n","g"," ","H","o","m","e","s">>],
     [id |-> "d3", name |-> <<"H","o","s","p","i","t","a","l"," ","R","e","a","d","m","i","s","s","i","o","n","s">>] >>

Listings == {ListingA, ListingB}

\* a listing in which the catalog names the dataset d1 twice
ListingC ==
  << [id |-> "d1", name |-> <<"H","o","s","p","i","t","a","l","s"," ","I","n","f","o">>],
     [id |-> "d1", name |-> <<"H","o","s","p","i","t","a","l","s"," ","I","n","f","o">>],
     [id |-> "d2", name |-> <<"N","u","r","s","i","n","g"," ","H","o","m","e","s">>] >>

Ids == {"d1", "d2", "d3", "d4"}

\* ------------------------------------------------------------ str helpers
UpperChars == <<"A","B","C","D","E","F","G","H","I","J","K","L","M",
                "N","O","P","Q","R","S","T","U","V","W","X","Y","Z">>
LowerChars == <<"a","b","c","d","e","f","g","h","i","j","k","l","m",
                "n","o","p","q","r","s","t","u","v","w","x","y","z">>

\* str.lower() of one character
LowerChar(c) ==
  IF \E i \in DOMAIN UpperChars : UpperChars[i] = c
  THEN LowerChars[CHOOSE i \in DOMAIN UpperChars : UpperChars[i] = c]
  ELSE c

\* str.lower()
Lower(str) == [i \in DOMAIN str |-> LowerChar(str[i])]

\* the "in" operator on strings: sub occurs in str
Contains(str, sub) ==
  \E off \in 0..(Len(str) - Len(sub)) :
     \A i \in 1..Len(sub) : str[off + i] = sub[i]

\* MatchesTheme without the two lower() calls of line 96
MatchesTheme_cased(dataset, theme) == Contains(dataset.name, theme)

\* the condition of the list comprehension of main()
MatchesTheme(dataset, theme) == Contains(Lower(dataset.name), Lower(theme))

\* the list comprehension of main(): the datasets whose name contains the
\* theme, compared in lower case, in listing order
hospital_datasets(datasets, theme) ==
  SelectSeq(datasets, LAMBDA ds : MatchesTheme(ds, theme))

\* ------------------------------------------------------------ to_snake_case
Digits == {"0", "1", "2", "3", "4", "5", "6", "7", "8", "9"}

IsUpper(c) == \E i \in DOMAIN UpperChars : UpperChars[i] = c
IsLower(c) == \E i \in DOMAIN LowerChars : LowerChars[i] = c

\* the class \w on ASCII text: letters, digits and the underscore
IsWord(c) == IsUpper(c) \/ IsLower(c) \/ c \in Digits \/ c = "_"

\* IsBoundary under re.IGNORECASE: the second group matches any letter
IsBoundary_ignorecase(a, b) ==
  (IsLower(a) \/ IsUpper(a) \/ a \in Digits) /\ (IsUpper(b) \/ IsLower(b))

\* the pattern ([a-z0-9])([A-Z]) matches the two characters a, b
IsBoundary(a, b) == (IsLower(a) \/ a \in Digits) /\ IsUpper(b)

RECURSIVE SubBoundaries(_, _)
\* line 23: re.sub(r'([a-z0-9])([A-Z])', r'\1_\2', s) from position i on,
\* matches taken left to right without overlap
SubBoundaries(s, i) ==
  IF i > Len(s) THEN << >>
  ELSE IF i < Len(s) /\ IsBoundary(s[i], s[i + 1])
       THEN << s[i], "_", s[i + 1] >> \o SubBoundaries(s, i + 2)
       ELSE << s[i] >> \o SubBoundaries(s, i + 1)

RECURSIVE SubNonWord(_, _)
\* line 24: re.sub(r'\W+', '_', s) from position i on: each maximal run of
\* characters outside \w becomes one underscore
SubNonWord(s, i) ==
  IF i > Len(s) THEN << >>
  ELSE IF IsWord(s[i]) THEN << s[i] >> \o SubNonWord(s, i + 1)
  ELSE IF i > 1 /\ ~IsWord(s[i - 1]) THEN SubNonWord(s, i + 1)
  ELSE << "_" >> \o SubNonWord(s, i + 1)

RECURSIVE LStrip(_, _)
LStrip(s, c) == IF s # << >> /\ s[1] = c THEN LStrip(Tail(s), c) ELSE s

RECURSIVE RStrip(_, _)
RStrip(s, c) ==
  IF s # << >> /\ s[Len(s)] = c THEN RStrip(SubSeq(s, 1, Len(s) - 1), c) ELSE s

\* str.strip(c)
Strip(s, c) == RStrip(LStrip(s, c), c)

\* lines 22-26
to_snake_case(name) ==
  Lower(Strip(SubNonWord(SubBoundaries(name, 1), 1), "_"))

\* ------------------------------------------------------- timestamp values
\* the text of last_modified the catalog sends for instant t
ApiText(t) == [s |-> "T", t |-> t]

\* datetime.strptime(text, '%Y-%m-%dT%H:%M:%S')
strptime(text) == [kind |-> "datetime", s |-> "-", t |-> text.t]

\* str(datetime): 'YYYY-MM-DD HH:MM:SS'
StrOfDatetime(v) == [kind |-> "str", s |-> " ", t |-> v.t]

\* ------------------------------------------------------------- dict helpers
HasKey(m, k) == \E i \in DOMAIN m : m[i].k = k
GetItem(m, k) == m[CHOOSE i \in DOMAIN m : m[i].k = k].v
\* SetItem that binds last_run to a new dict holding the one entry
SetItem_fresh(m, k, v) == << [k |-> k, v |-> v] >>

SetItem(m, k, v) ==
  IF HasKey(m, k)
  THEN [i \in DOMAIN m |-> IF m[i].k = k THEN [k |-> k, v |-> v] ELSE m[i]]
  ELSE Append(m, [k |-> k, v |-> v])

\* ------------------------------------------------------------ json helpers
Punct(name) == [tok |-> name, k |-> "", s |-> "", t |-> 0]
ItemTok(k, v) == [tok |-> "item", k |-> k, s |-> v.s, t |-> v.t]

\* what json.dump(..., default=str) writes for one value of last_run
JsonValue(v) == IF v.kind = "datetime" THEN StrOfDatetime(v) ELSE v

RECURSIVE JsonItems(_, _)
\* the items 1..n of last_run as json.dump emits them
JsonItems(m, n) ==
  IF n = 0 THEN << >>
  ELSE IF n = 1 THEN << ItemTok(m[1].k, JsonValue(m[1].v)) >>
  ELSE JsonItems(m, n - 1) \o << Punct("sep"), ItemTok(m[n].k, JsonValue(m[n].v)) >>

\* the whole text json.dump writes for a last_run dict that no other thread
\* changes meanwhile
JsonDump(m) == << Punct("head") >> \o JsonItems(m, Len(m)) \o << Punct("foot") >>

\* json.load accepts exactly one complete document
JsonValid(b) ==
  /\ Len(b) >= 2
  /\ b[1].tok = "head"
  /\ b[Len(b)].tok = "foot"
  /\ \A i \in 2..(Len(b) - 1) :
        b[i].tok = (IF i % 2 = 0 THEN "item" ELSE "sep")
  /\ (Len(b) > 2 => Len(b) % 2 = 1)

RECURSIVE JsonLoadItems(_, _)
JsonLoadItems(b, n) ==
  IF n < 2 THEN << >>
  ELSE SetItem(JsonLoadItems(b, n - 2), b[n].k,
               [kind |-> "str", s |-> b[n].s, t |-> b[n].t])

\* json.load of a valid document: every value is a str
JsonLoad(b) == JsonLoadItems(b, Len(b) - 1)

\* a buffer written at offset 0 of a file that was not truncated since
FileWrite(old, new) ==
  IF Len(new) >= Len(old) THEN new
  ELSE new \o SubSeq(old, Len(new) + 1, Len(old))

\* ------------------------------------------------------------------ state
VARIABLES
  listing,        \* the catalog listing of this deployment
  run,            \* which run of main() this is, 1..MaxRuns
  remote,         \* remote[i]: the instant of last_modified of the listing's i-th dataset
  file,           \* metadata.json: [exists, bytes]
  disk,           \* disk[id]: the last_modified of the version in ./datasets/<id>.csv, 0 if no file
  mainPc,         \* where main() is
  metadata,       \* metadata['last_run'], the dict every task shares
  tpc,            \* tpc[i]: where the task of the i-th dataset is
  downloads,      \* downloads[i]: requests.get(download_url) calls of task i in this run
  started,        \* started[i]: size of last_run when task i's json.dump began to iterate it
  buf,            \* buf[i]: text held by task i's open file object, not yet in the file
  catalog,        \* the answer of this run to requests.get(API_URL), "none" before it
  response,       \* response[i]: the answer task i got to requests.get(download_url),
                  \* "none" before it
  prevDownloaded, \* history: the tasks that downloaded and recorded in the previous run,
                  \* when that run completed and nothing was republished since
  snakePc,        \* to_snake_case on its own: "off", or "raw", "once", "twice" applications done
  colName,        \* the column name given to to_snake_case
  colOnce,        \* to_snake_case(colName)
  colTwice        \* to_snake_case(colOnce)

progVars == << listing, run, remote, file, disk, mainPc, metadata, tpc, downloads,
               started, buf, catalog, response, prevDownloaded >>

snakeVars == << snakePc, colName, colOnce, colTwice >>

vars == << progVars, snakeVars >>

Raised == {"raised_type", "raised_net", "raised_parse", "raised_dump"}
Finished == {"skipped", "failed", "downloaded"} \cup Raised
Terminal == {"done", "aborted", "crashed_load", "crashed_fetch", "crashed_task"}

Tasks == DOMAIN listing

\* the i-th dataset of response.json()['items']
Dataset(i) == [id |-> listing[i].id, name |-> listing[i].name,
               last_modified |-> ApiText(remote[i])]

\* the positions of the datasets main() keeps
Matching == {i \in Tasks : MatchesTheme(listing[i], THEME)}

\* ------------------------------------------------------- staleness decision
\* datetime > other: Python orders a datetime only against a datetime
DatetimeGreater(a, b) ==
  IF b.kind = "datetime"
  THEN (IF a.t > b.t THEN "true" ELSE "false")
  ELSE "TypeError"

file_modified_since_last_run(dataset, md) ==
  IF HasKey(md, dataset.id)
  THEN DatetimeGreater(strptime(dataset.last_modified), GetItem(md, dataset.id))
  ELSE "true"

\* -------------------------------------------------------------------- Init
\* main() has not begun and no task exists
RunInit ==
  /\ mainPc = "load"
  /\ metadata = << >>
  /\ tpc = [i \in Tasks |-> "idle"]
  /\ downloads = [i \in Tasks |-> 0]
  /\ started = [i \in Tasks |-> 0]
  /\ buf = [i \in Tasks |-> << >>]
  /\ catalog = "none"
  /\ response = [i \in Tasks |-> "none"]

\* the first run on a machine that holds no file of the script yet
ProgInit ==
  /\ run = 1
  /\ remote = [i \in Tasks |-> 1]
  /\ file = [exists |-> FALSE, bytes |-> << >>]
  /\ disk = [d \in Ids |-> 0]
  /\ prevDownloaded = {}
  /\ RunInit

\* the program as the script runs it: to_snake_case is not looked at apart
Init ==
  /\ listing \in Listings
  /\ ProgInit
  /\ snakePc = "off"
  /\ colName = << >>
  /\ colOnce = << >>
  /\ colTwice = << >>

\* -------------------------------------------------------------------- main
\* main(), lines 80-85: load metadata.json or start from an empty last_run
Load ==
  /\ mainPc = "load"
  /\ IF file.exists
     THEN IF JsonValid(file.bytes)
          THEN /\ metadata' = JsonLoad(file.bytes)
               /\ mainPc' = "fetch"
          ELSE /\ metadata' = metadata       \* json.load raises JSONDecodeError
               /\ mainPc' = "crashed_load"
     ELSE /\ metadata' = << >>
          /\ mainPc' = "fetch"
  /\ UNCHANGED << listing, run, remote, file, disk, tpc, downloads, started, buf,
                  catalog, prevDownloaded, response,
                  snakeVars >>

\* AfterCatalog without the return of line 91: only a raised error stops main()
AfterCatalog_noreturn(answer, kept) ==
  IF answer = "error" THEN "crashed_fetch"
  ELSE IF kept = 0 THEN "wait" ELSE "submit"

\* what main() does with the answer to requests.get(API_URL), given the
\* number of datasets it keeps
AfterCatalog(answer, kept) ==
  IF answer = "200"
  THEN (IF kept = 0 THEN "wait" ELSE "submit")
  ELSE IF answer = "error" THEN "crashed_fetch"
  ELSE "aborted"

\* main(), lines 87-96: fetch the listing; a status other than 200 returns
FetchCatalog ==
  /\ mainPc = "fetch"
  /\ \E answer \in {"200", "500", "error"} :
       /\ catalog' = answer
       /\ mainPc' = AfterCatalog(answer, Cardinality(Matching))
  /\ UNCHANGED << listing, run, remote, file, disk, metadata, tpc, downloads, started,
                  buf, prevDownloaded, response,
                  snakeVars >>

\* main(), lines 101-102: executor.submit for the next kept dataset
Submit ==
  /\ mainPc = "submit"
  /\ \E i \in Matching :
       /\ tpc[i] = "idle"
       /\ \A j \in Matching : j < i => tpc[j] # "idle"
       /\ tpc' = [tpc EXCEPT ![i] = "start"]
       /\ mainPc' = IF \A j \in Matching : j <= i THEN "wait" ELSE "submit"
  /\ UNCHANGED << listing, run, remote, file, disk, metadata, downloads, started, buf,
                  catalog, prevDownloaded, response,
                  snakeVars >>

\* main(), lines 105-106: future.result() of a future whose task raised
\* re-raises in main(), which leaves the loop for the end of the with-block
TaskErrorSeen ==
  /\ mainPc = "wait"
  /\ \E i \in Tasks : tpc[i] \in Raised
  /\ mainPc' = "unwind"
  /\ UNCHANGED << listing, run, remote, file, disk, metadata, tpc, downloads, started,
                  buf, catalog, prevDownloaded, response,
                  snakeVars >>

\* shutdown_wait as executor.shutdown(wait=False) would be: no join
shutdown_nowait(pcs) == \A i \in DOMAIN pcs : pcs[i] \in Finished \cup {"idle", "start", "stale", "fetched"}

\* whether the with-block may be left: executor.shutdown(wait=True) joins
\* the workers, which run every submitted task to its end
shutdown_wait(pcs) == \A i \in DOMAIN pcs : pcs[i] \in Finished \cup {"idle"}

\* main(), line 99: ThreadPoolExecutor.__exit__, then the pending exception
\* leaves main()
Shutdown ==
  /\ mainPc = "unwind"
  /\ shutdown_wait(tpc)
  /\ mainPc' = "crashed_task"
  /\ UNCHANGED << listing, run, remote, file, disk, metadata, tpc, downloads, started,
                  buf, catalog, prevDownloaded, response,
                  snakeVars >>

\* all_completed waiting for a result of every dataset of the listing, the
\* ones that were never submitted included
all_completed_every(pcs) == \A i \in DOMAIN pcs : pcs[i] \in (Finished \ Raised)

\* whether as_completed has yielded every future and none re-raised
all_completed(pcs) == \A i \in DOMAIN pcs : pcs[i] \in (Finished \ Raised) \cup {"idle"}

\* main(), lines 105-108: the loop and the with-block end, main() prints
\* "Download and processing complete."
Complete ==
  /\ mainPc = "wait"
  /\ all_completed(tpc)
  /\ mainPc' = "done"
  /\ UNCHANGED << listing, run, remote, file, disk, metadata, tpc, downloads, started,
                  buf, catalog, prevDownloaded, response,
                  snakeVars >>

\* ------------------------------------------------------ download_and_process
\* AfterCheck without the return of line 48: a task that prints "Skipping"
\* goes on to the download
AfterCheck_noreturn(result) ==
  IF result = "TypeError" THEN "raised_type" ELSE "stale"

\* where a task goes after the staleness decision
AfterCheck(result) ==
  IF result = "TypeError" THEN "raised_type"
  ELSE IF result = "true" THEN "stale"
  ELSE "skipped"

\* lines 45-48
Check(i) ==
  /\ tpc[i] = "start"
  /\ tpc' = [tpc EXCEPT ![i] =
               AfterCheck(file_modified_since_last_run(Dataset(i), metadata))]
  /\ UNCHANGED << listing, run, remote, file, disk, mainPc, metadata, downloads,
                  started, buf, catalog, prevDownloaded, response,
                  snakeVars >>

\* AfterGet without the test of line 54: any answer that is not an error is
\* processed
AfterGet_nostatus(answer) ==
  IF answer = "error" THEN "raised_net" ELSE "fetched"

\* where a task goes after requests.get(download_url)
AfterGet(answer) ==
  IF answer = "200" THEN "fetched"
  ELSE IF answer = "error" THEN "raised_net"
  ELSE "failed"

\* lines 50-54 and 73-74
Get(i) ==
  /\ tpc[i] = "stale"
  /\ downloads' = [downloads EXCEPT ![i] = @ + 1]
  /\ \E answer \in {"200", "404", "error"} :
       /\ response' = [response EXCEPT ![i] = answer]
       /\ tpc' = [tpc EXCEPT ![i] = AfterGet(answer)]
  /\ UNCHANGED << listing, run, remote, file, disk, mainPc, metadata, started, buf,
                  catalog, prevDownloaded,
                  snakeVars >>

\* to_csv when the text stays in a buffer that is written out later
to_csv_unflushed(files, id, t) == files

\* lines 64-66: df.to_csv(file_path) leaves the version t of the dataset in
\* ./datasets/<id>.csv
to_csv(files, id, t) == [files EXCEPT ![id] = t]

\* lines 57-67: pd.read_csv is handed the decoded body as its path argument,
\* so it returns a frame only when that text names a readable CSV and raises
\* otherwise; to_csv then writes ./datasets/<id>.csv
Process(i) ==
  /\ tpc[i] = "fetched"
  /\ \E readable \in BOOLEAN :
       IF readable
       THEN /\ disk' = to_csv(disk, listing[i].id, remote[i])
            /\ tpc' = [tpc EXCEPT ![i] = "written"]
       ELSE /\ disk' = disk
            /\ tpc' = [tpc EXCEPT ![i] = "raised_parse"]
  /\ UNCHANGED << listing, run, remote, file, mainPc, metadata, downloads, started,
                  buf, catalog, prevDownloaded, response,
                  snakeVars >>

\* recordSuccess storing the time of the download (a later instant) instead
\* of the dataset's last_modified
recordSuccess_now(md, dataset) ==
  SetItem(md, dataset.id, strptime(ApiText(dataset.last_modified.t + 1)))

\* the assignment of line 70
recordSuccess(md, dataset) ==
  SetItem(md, dataset.id, strptime(dataset.last_modified))

\* line 70
Record(i) ==
  /\ tpc[i] = "written"
  /\ metadata' = recordSuccess(metadata, Dataset(i))
  /\ tpc' = [tpc EXCEPT ![i] = "recorded"]
  /\ UNCHANGED << listing, run, remote, file, disk, mainPc, downloads, started, buf,
                  catalog, prevDownloaded, response,
                  snakeVars >>

\* line 71: open(METADATA_FILE, 'w') creates or truncates the file; nothing
\* of last_run has been read yet
OpenDump(i) ==
  /\ tpc[i] = "recorded"
  /\ file' = [exists |-> TRUE, bytes |-> << >>]
  /\ tpc' = [tpc EXCEPT ![i] = "opened"]
  /\ UNCHANGED << listing, run, remote, disk, mainPc, metadata, downloads, started,
                  buf, catalog, prevDownloaded, response,
                  snakeVars >>

\* line 72: json.dump starts to iterate last_run: the iterator notes the
\* size of the dict and hands out the first item, which is written to the
\* file object as it is now (last_run holds at least this task's own entry)
DumpBegin(i) ==
  /\ tpc[i] = "opened"
  /\ started' = [started EXCEPT ![i] = Len(metadata)]
  /\ buf' = [buf EXCEPT ![i] =
               << Punct("head"), ItemTok(metadata[1].k, JsonValue(metadata[1].v)) >>]
  /\ tpc' = [tpc EXCEPT ![i] = "dumping"]
  /\ UNCHANGED << listing, run, remote, file, disk, mainPc, metadata, downloads,
                  catalog, prevDownloaded, response,
                  snakeVars >>

\* line 72: json.dump asks the iterator of last_run for the next item, n
\* items being written.  If the size of the dict is not the one noted, the
\* iterator raises RuntimeError (dictionary changed size during iteration)
\* and the text stays as it is; otherwise the next item is written with the
\* value it has now, or, after the last one, the end of the document.
DumpNext(i) ==
  /\ tpc[i] = "dumping"
  /\ LET n == Len(buf[i]) \div 2
     IN IF Len(metadata) # started[i]
        THEN /\ buf' = buf
             /\ tpc' = [tpc EXCEPT ![i] = "closing_err"]
             /\ started' = [started EXCEPT ![i] = 0]
        ELSE IF n < started[i]
        THEN /\ buf' = [buf EXCEPT ![i] =
                          @ \o << Punct("sep"),
                                  ItemTok(metadata[n + 1].k, JsonValue(metadata[n + 1].v)) >>]
             /\ tpc' = tpc
             /\ started' = started
        ELSE /\ buf' = [buf EXCEPT ![i] = @ \o << Punct("foot") >>]
             /\ tpc' = [tpc EXCEPT ![i] = "closing"]
             /\ started' = [started EXCEPT ![i] = 0]
  /\ UNCHANGED << listing, run, remote, file, disk, mainPc, metadata, downloads,
                  catalog, prevDownloaded, response,
                  snakeVars >>

\* line 71: the with-block closes the file object, which flushes its text
Close(i) ==
  /\ tpc[i] \in {"closing", "closing_err"}
  /\ file' = [exists |-> TRUE, bytes |-> FileWrite(file.bytes, buf[i])]
  /\ buf' = [buf EXCEPT ![i] = << >>]
  /\ tpc' = [tpc EXCEPT ![i] =
               IF tpc[i] = "closing" THEN "downloaded" ELSE "raised_dump"]
  /\ UNCHANGED << listing, run, remote, disk, mainPc, metadata, downloads, started,
                  catalog, prevDownloaded, response,
                  snakeVars >>

\* ------------------------------------------------------------- environment
\* the datasets at the positions S get a newer last_modified in the catalog
Republish(S) ==
  [i \in Tasks |-> IF i \in S /\ remote[i] < MaxTime THEN remote[i] + 1 ELSE remote[i]]

\* what the publisher may update between two runs: nothing, or one dataset
Updates == {{}} \cup {{i} : i \in Tasks}

\* lines 110-111: the script is started again after the previous run ended;
\* in between, the publisher may have updated some datasets
NextRun ==
  /\ mainPc \in Terminal
  /\ run < MaxRuns
  /\ run' = run + 1
  /\ \E S \in Updates :
       /\ remote' = Republish(S)
       /\ prevDownloaded' =
            IF mainPc = "done" /\ Republish(S) = remote
            THEN {i \in Tasks : tpc[i] = "downloaded"}
            ELSE {}
  /\ catalog' = "none"
  /\ mainPc' = "load"
  /\ metadata' = << >>
  /\ tpc' = [i \in Tasks |-> "idle"]
  /\ downloads' = [i \in Tasks |-> 0]
  /\ started' = [i \in Tasks |-> 0]
  /\ buf' = [i \in Tasks |-> << >>]
  /\ response' = [i \in Tasks |-> "none"]
  /\ UNCHANGED << listing, file, disk,
                  snakeVars >>

Next ==
  \/ Load
  \/ FetchCatalog
  \/ Submit
  \/ TaskErrorSeen
  \/ Shutdown
  \/ Complete
  \/ \E i \in Tasks : Check(i)
  \/ \E i \in Tasks : Get(i)
  \/ \E i \in Tasks : Process(i)
  \/ \E i \in Tasks : Record(i)
  \/ \E i \in Tasks : OpenDump(i)
  \/ \E i \in Tasks : DumpBegin(i)
  \/ \E i \in Tasks : DumpNext(i)
  \/ \E i \in Tasks : Close(i)
  \/ NextRun

Spec == Init /\ [][Next]_vars

\* ------------------------------------------------------------- properties
\* metadata.json parses and holds the watermark of task i's dataset
FileHolds(i) ==
  /\ JsonValid(file.bytes)
  /\ HasKey(JsonLoad(file.bytes), listing[i].id)
  /\ GetItem(JsonLoad(file.bytes), listing[i].id).t = remote[i]

\* metadata.json parses and has an entry for task i's dataset
FileHasKey(i) ==
  /\ JsonValid(file.bytes)
  /\ HasKey(JsonLoad(file.bytes), listing[i].id)

\* one step of task i
TaskStep(i) ==
  \/ Check(i) \/ Get(i) \/ Process(i) \/ Record(i)
  \/ OpenDump(i) \/ DumpBegin(i) \/ DumpNext(i) \/ Close(i)

\* C1 (as claimed): when a run follows a run that completed, no last_modified
\* changed in between and the catalog is listed again, then at the end of the
\* second run every dataset the first run downloaded was skipped, without a
\* download request.
C1_IdempotentRerun ==
  (run >= 2 /\ catalog = "200" /\ mainPc \in Terminal)
    => \A i \in prevDownloaded : tpc[i] = "skipped" /\ downloads[i] = 0

\* C2 (as claimed): once all tasks of a run have recorded and persisted
\* their watermark, metadata.json holds the watermark of every one of them.
C2_NoLostUpdates ==
  (mainPc \in Terminal /\ \A i \in Tasks : tpc[i] \in {"idle", "downloaded"})
    => \A i \in Tasks : tpc[i] = "downloaded" => FileHolds(i)

\* C3: main() has not concluded while a submitted task is unfinished, and a
\* submitted, unfinished task can always take its next step, whatever
\* happened to the other tasks (it is neither cancelled nor blocked); main()
\* can always submit the next task.
C3_FailureIsolation ==
  /\ mainPc \in Terminal => \A i \in Tasks : tpc[i] \in Finished \cup {"idle"}
  /\ \A i \in Tasks : tpc[i] \notin Finished \cup {"idle"} => ENABLED TaskStep(i)
  /\ mainPc = "submit" => ENABLED Submit

\* C3 witness: a run ended after one task raised and a sibling downloaded
C3_Witness ==
  /\ mainPc = "crashed_task"
  /\ \E i \in Tasks : tpc[i] = "raised_net"
  /\ \E j \in Tasks : tpc[j] = "downloaded"

\* C4 (as claimed): at the end of a run in which one task failed with a
\* network error on its download and the others downloaded, metadata.json
\* holds the watermark of every task that downloaded and none for the failed
\* one.
C4_PartialFailure ==
  ( /\ mainPc \in Terminal
    /\ Cardinality({i \in Tasks : tpc[i] = "raised_net"}) = 1
    /\ \A i \in Tasks : tpc[i] \in {"idle", "raised_net", "downloaded"} )
    => \A i \in Tasks :
         /\ tpc[i] = "downloaded" => FileHolds(i)
         /\ tpc[i] = "raised_net" => ~FileHasKey(i)

\* C5 (as claimed): a run in which a task raised during fetch, parse or
\* write still concludes normally.
C5_TaskErrorsContained ==
  (mainPc \in Terminal /\ \E i \in Tasks : tpc[i] \in {"raised_net", "raised_parse"})
    => mainPc = "done"

\* C6 (as claimed): for every dataset and every metadata state the staleness
\* decision is true exactly when the id is absent or last_modified is later
\* than the stored watermark, false otherwise, and it never fails.
C6_StalenessDecision ==
  \A i \in Tasks :
    file_modified_since_last_run(Dataset(i), metadata)
      = (IF \/ ~HasKey(metadata, listing[i].id)
            \/ remote[i] > GetItem(metadata, listing[i].id).t
         THEN "true" ELSE "false")

\* main() holds a metadata structure: it has loaded or created it
MetadataLoaded == mainPc \notin {"load", "crashed_load"}

\* the value stored under id denotes the instant of the version on disk
WatermarkMatchesDisk(id) ==
  HasKey(metadata, id) => GetItem(metadata, id).t = disk[id]

\* C7 (as claimed): in every state in which main() holds the metadata, an id
\* is a key of last_run if and only if the dataset's local file was written,
\* and the stored timestamp is the last_modified of the version on disk.
C7_KeyIffWritten ==
  MetadataLoaded =>
    \A i \in Tasks :
      /\ HasKey(metadata, listing[i].id) <=> disk[listing[i].id] # 0
      /\ WatermarkMatchesDisk(listing[i].id)

\* C7 (amended): the same, except while the dataset's task stands between
\* the write of the local file (line 66) and the watermark assignment
\* (line 70): there the file exists and the key is not yet present.
C7_KeyIffWrittenAndRecorded ==
  MetadataLoaded =>
    \A i \in Tasks :
      /\ HasKey(metadata, listing[i].id)
           <=> (disk[listing[i].id] # 0 /\ tpc[i] # "written")
      /\ WatermarkMatchesDisk(listing[i].id)

\* C7 witness: one task has written its file and not yet recorded, while a
\* watermark loaded from an earlier run and one set in this run are present
C7_Witness ==
  /\ run = 2
  /\ \E i \in Tasks : tpc[i] = "written"
  /\ \E j \in Tasks : tpc[j] = "downloaded"
  /\ \E n \in DOMAIN metadata : metadata[n].v.kind = "str"

\* C8 (as claimed): when metadata.json holds what persist wrote for the
\* current metadata, loading it yields that metadata again, with every
\* watermark comparable against a dataset's last_modified.
C8_RoundTrip ==
  (file.exists /\ file.bytes = JsonDump(metadata)) =>
    /\ JsonLoad(file.bytes) = metadata
    /\ \A n \in DOMAIN metadata :
         DatetimeGreater(strptime(ApiText(1)), JsonLoad(file.bytes)[n].v) # "TypeError"

\* task i is between its staleness check and the end of its persist
InCritical(i) ==
  tpc[i] \in {"stale", "fetched", "written", "recorded", "opened",
              "dumping", "closing", "closing_err"}

\* task i has metadata.json open for writing
Persisting(i) == tpc[i] \in {"opened", "dumping", "closing", "closing_err"}

\* C9 (as claimed): no two tasks are at the same time between their staleness
\* check and the end of their persist, and no two writes of metadata.json
\* overlap.
C9_MutualExclusion ==
  \A i, j \in Tasks :
    i # j => ~(InCritical(i) /\ InCritical(j)) /\ ~(Persisting(i) /\ Persisting(j))

\* what main() gets from the metadata file as it stands
LoadedMetadata == IF file.exists THEN JsonLoad(file.bytes) ELSE << >>

\* C10: once the catalog request has answered with a non-success status or
\* failed, main() has ended, no task was submitted, no download was requested
\* and the metadata in memory is what the file holds; and up to the catalog
\* answer no step writes metadata.json or a dataset file.
C10_CatalogFailureAborts ==
  /\ [](catalog \in {"500", "error"} =>
          /\ mainPc \in {"aborted", "crashed_fetch"}
          /\ \A i \in Tasks : tpc[i] = "idle" /\ downloads[i] = 0
          /\ metadata = LoadedMetadata)
  /\ [][(mainPc \in {"load", "fetch"}) => (file' = file /\ disk' = disk)]_vars

\* C10 witness: a later run, with datasets and metadata on disk, aborted on
\* the catalog's status
C10_Witness ==
  /\ catalog = "500"
  /\ mainPc = "aborted"
  /\ file.exists
  /\ \E d \in Ids : disk[d] # 0

\* lines 110-111: the status the interpreter exits with when main() ended in
\* pc: 0 after a return, 1 after an uncaught exception
ExitStatus(pc) ==
  IF pc \in {"crashed_load", "crashed_fetch", "crashed_task"} THEN 1 ELSE 0

\* C11 (as claimed): a run whose catalog request answered with a non-success
\* status ends with a non-zero exit status.
C11_CatalogFailureExitsNonZero ==
  (mainPc \in Terminal /\ catalog = "500") => ExitStatus(mainPc) # 0

\* C12 (as claimed): for the listing named "Hospital General Info",
\* "Nursing Homes", "Hospital Readmissions" the filter with the configured
\* theme returns the first and the third dataset, in that order.
C12_CatalogFilter ==
  (listing = ListingB /\ catalog = "200")
    => hospital_datasets(listing, THEME) = << ListingB[1], ListingB[3] >>


\* ------------------------------------------------- to_snake_case on its own
SnakeAlphabet == {"a", "B", "7", "_", "-", " "}

\* the column names of up to MaxNameLen characters over SnakeAlphabet
Names == UNION {[1..n -> SnakeAlphabet] : n \in 0..MaxNameLen}

InitSnake ==
  /\ listing = ListingA
  /\ ProgInit
  /\ snakePc = "raw"
  /\ colName \in Names
  /\ colOnce = << >>
  /\ colTwice = << >>

\* line 61: a column name is normalised
Normalise ==
  /\ snakePc = "raw"
  /\ colOnce' = to_snake_case(colName)
  /\ snakePc' = "once"
  /\ UNCHANGED << progVars, colName, colTwice >>

\* to_snake_case applied to its own output
Renormalise ==
  /\ snakePc = "once"
  /\ colTwice' = to_snake_case(colOnce)
  /\ snakePc' = "twice"
  /\ UNCHANGED << progVars, colName, colOnce >>

NextSnake == Normalise \/ Renormalise

SpecSnake == InitSnake /\ [][NextSnake]_vars

HasDoubledUnderscore(s) ==
  \E i \in 1..(Len(s) - 1) : s[i] = "_" /\ s[i + 1] = "_"

\* C13 (as claimed): the name to_snake_case returns never holds two adjacent
\* underscores and never starts or ends with an underscore.
C13_CanonicalNames ==
  (snakePc \in {"once", "twice"})
    => /\ ~HasDoubledUnderscore(colOnce)
       /\ (colOnce # << >> => (colOnce[1] # "_" /\ colOnce[Len(colOnce)] # "_"))

\* C14: to_snake_case returns a name for every input, and applying it to its
\* own output gives that output again.
C14_Idempotent ==
  /\ (snakePc \in {"once", "twice"}) => colOnce \in Seq(SnakeAlphabet \cup {"b"})
  /\ (snakePc = "twice") => colTwice = colOnce

\* a name with a case boundary and punctuation has been normalised twice
C14_Witness ==
  /\ snakePc = "twice"
  /\ colName = << "a", "B", "-", "7" >>
  /\ colOnce = << "a", "_", "b", "_", "7" >>


\* ----------------------------------------- a catalog that repeats a dataset
InitDup ==
  /\ listing = ListingC
  /\ ProgInit
  /\ snakePc = "off"
  /\ colName = << >>
  /\ colOnce = << >>
  /\ colTwice = << >>

SpecDup == InitDup /\ [][Next]_vars

\* C15: a task whose dataset is decided not stale ends as skipped in that very
\* step, which changes neither the local files, nor the in-memory metadata,
\* nor metadata.json; a skipped task has requested no download, holds no open
\* file and takes no further step.
C15_SkipHasNoEffect ==
  /\ [](\A i \in Tasks :
          tpc[i] = "skipped"
            => /\ downloads[i] = 0
               /\ buf[i] = << >>
               /\ started[i] = 0
               /\ ~ENABLED TaskStep(i))
  /\ [][\A i \in Tasks :
          (/\ tpc[i] = "start"
           /\ file_modified_since_last_run(Dataset(i), metadata) = "false"
           /\ tpc'[i] # "start")
            => /\ tpc'[i] = "skipped"
               /\ downloads' = downloads
               /\ disk' = disk
               /\ metadata' = metadata
               /\ file' = file]_vars

\* the second task of d1 was skipped after the first one downloaded it
C15_Witness ==
  \E i, j \in Tasks :
    /\ listing[i].id = listing[j].id
    /\ tpc[i] = "downloaded"
    /\ tpc[j] = "skipped"
    /\ downloads[j] = 0


\* C16: a task whose download answered with a status other than 200 has ended
\* as failed after that one request and takes no further step; the step that
\* got the answer changed no dataset file, no in-memory watermark and not
\* metadata.json; the dataset has no watermark in memory, and whatever a next
\* run loads from metadata.json decides it stale; main() is never left through
\* an exception unless some task raised one.
C16_FailedDownloadKeepsState ==
  /\ [](\A i \in Tasks :
          response[i] = "404"
            => /\ tpc[i] = "failed"
               /\ downloads[i] = 1
               /\ ~ENABLED TaskStep(i)
               /\ ~HasKey(metadata, listing[i].id)
               /\ (~file.exists \/ JsonValid(file.bytes))
                    => file_modified_since_last_run(Dataset(i), LoadedMetadata) = "true")
  /\ [](mainPc \in {"unwind", "crashed_task"} => \E j \in Tasks : tpc[j] \in Raised)
  /\ [][\A i \in Tasks :
          (tpc[i] = "stale" /\ response'[i] = "404")
            => (disk' = disk /\ metadata' = metadata /\ file' = file)]_vars

\* a run completed in which one download answered 404 and another dataset was
\* downloaded and recorded
C16_Witness ==
  /\ mainPc = "done"
  /\ \E i, j \in Tasks :
       /\ response[i] = "404"
       /\ tpc[i] = "failed"
       /\ tpc[j] = "downloaded"


\* the theme is a substring of the name of the i-th dataset, letter case aside
ThemeInName(i) == Contains(Lower(listing[i].name), Lower(THEME))

\* C17: within a run only datasets whose name holds the theme get a task,
\* every such dataset has its task once main() has left the submit loop, no
\* task is started a second time, and no task requests its download more than
\* once.
C17_SingleAttempt ==
  /\ [](\A i \in Tasks :
          /\ tpc[i] # "idle" => ThemeInName(i)
          /\ (mainPc \in {"wait", "unwind", "done", "crashed_task"} /\ ThemeInName(i))
               => tpc[i] # "idle"
          /\ downloads[i] <= 1
          /\ downloads[i] = 1 <=> response[i] # "none")
  /\ [][\A i \in Tasks :
          (tpc'[i] = "start" /\ tpc[i] # "start") => tpc[i] = "idle"]_vars

\* a run of the listing with a dataset outside the theme has ended: the
\* datasets of the theme were each requested once, with a success and a
\* failure among them, and the other dataset has no task
C17_Witness ==
  /\ listing = ListingA
  /\ mainPc = "done"
  /\ tpc[2] = "idle"
  /\ downloads = << 1, 0, 1, 1 >>
  /\ tpc[1] = "downloaded"
  /\ tpc[3] = "failed"


\* ---------------------------------------------------------------- fairness
\* the first three datasets of ListingA: two kept datasets with ids of
\* their own
ListingD == SubSeq(ListingA, 1, 3)

\* the listings of the runs checked for termination: no kept dataset, two
\* kept datasets of one id, two kept datasets of two ids
InitFair ==
  /\ listing \in {ListingB, ListingC, ListingD}
  /\ ProgInit
  /\ snakePc = "off"
  /\ colName = << >>
  /\ colOnce = << >>
  /\ colTwice = << >>

\* a step of main()
MainStep ==
  Load \/ FetchCatalog \/ Submit \/ TaskErrorSeen \/ Shutdown \/ Complete

\* a step of one of the workers of the pool
WorkerStep == \E i \in Tasks : TaskStep(i)

\* Every request and every file operation returns: the main thread takes its
\* step when one stays possible, and so do the workers of the pool, each of
\* whose tasks has a bounded number of steps that no other thread disables.
\* The operating system starves neither thread; when the script is started
\* again is up to the user.
Fairness == WF_vars(MainStep) /\ WF_vars(WorkerStep)

FairSpec == InitFair /\ [][Next]_vars /\ Fairness

\* C18: every run that has begun ends, and when main() has ended every
\* submitted task has finished.
C18_Termination ==
  /\ (mainPc \notin Terminal) ~> (mainPc \in Terminal)
  /\ [](mainPc \in Terminal => \A i \in Tasks : tpc[i] \in Finished \cup {"idle"})

\* a second run, started on the files of the first, has ended after one task
\* raised an exception and the other downloaded its dataset
C18_Witness ==
  /\ run = 2
  /\ file.exists
  /\ mainPc = "crashed_task"
  /\ \E i, j \in Tasks :
       /\ tpc[i] = "raised_type"
       /\ tpc[j] = "downloaded"


\* the dataset ids that have an entry in the metadata text b
ItemIds(b) == {b[n].k : n \in {m \in DOMAIN b : b[m].tok = "item"}}

\* C19: a task that has set its watermark has written its dataset file
\* before, and a task that has opened metadata.json has set its watermark
\* before; so every watermark set in this run that last_run holds, and every
\* watermark in metadata.json or in a text about to be written to it, belongs
\* to a dataset whose local file exists.
C19_WriteBeforeWatermark ==
  /\ \A i \in Tasks :
       /\ tpc[i] \in {"recorded", "opened", "dumping", "closing", "closing_err",
                      "downloaded", "raised_dump"}
            => /\ disk[listing[i].id] = remote[i]
               /\ HasKey(metadata, listing[i].id)
               /\ GetItem(metadata, listing[i].id) = strptime(ApiText(remote[i]))
       /\ tpc[i] = "written" => disk[listing[i].id] = remote[i]
       /\ \A d \in ItemIds(buf[i]) : disk[d] # 0
  /\ \A n \in DOMAIN metadata :
       metadata[n].v.kind = "datetime" => disk[metadata[n].k] # 0
  /\ \A d \in ItemIds(file.bytes) : disk[d] # 0

\* a second run has recorded a dataset: its watermark is in last_run and in
\* metadata.json, beside a watermark of the first run, and both files exist
C19_Witness ==
  /\ run = 2
  /\ \E i, j \in Tasks :
       /\ i # j
       /\ tpc[i] = "downloaded"
       /\ FileHolds(i)
       /\ GetItem(metadata, listing[i].id).kind = "datetime"
       /\ HasKey(metadata, listing[j].id)
       /\ GetItem(metadata, listing[j].id).kind = "str"
       /\ listing[j].id \in ItemIds(file.bytes)
       /\ disk[listing[i].id] # 0
       /\ disk[listing[j].id] # 0


\* the task of the dataset with this id takes the step of line 70
Records(id) ==
  \E i \in Tasks :
    listing[i].id = id /\ tpc[i] = "written" /\ tpc'[i] = "recorded"

\* C20: however the tasks interleave, last_run holds the last_modified of
\* every dataset whose task has passed the watermark assignment, and all of
\* them once every task has finished; while main() holds the metadata, an
\* entry changes only in the step in which the task of its dataset sets it,
\* and no entry is removed, so the entries of the other datasets are the
\* ones that were loaded.
C20_InMemoryUnion ==
  /\ [](\A i \in Tasks :
          tpc[i] \in {"recorded", "opened", "dumping", "closing", "closing_err",
                      "downloaded", "raised_dump"}
            => /\ HasKey(metadata, listing[i].id)
               /\ GetItem(metadata, listing[i].id) = strptime(ApiText(remote[i])))
  /\ [](\A n \in DOMAIN metadata :
          \/ metadata[n].v.kind = "str"
          \/ \E i \in Tasks :
               /\ listing[i].id = metadata[n].k
               /\ tpc[i] \in {"recorded", "opened", "dumping", "closing", "closing_err",
                              "downloaded", "raised_dump"})
  /\ [][(mainPc # "load" /\ mainPc' # "load")
          => /\ Len(metadata') >= Len(metadata)
             /\ \A n \in DOMAIN metadata :
                  \/ metadata'[n] = metadata[n]
                  \/ metadata'[n].k = metadata[n].k /\ Records(metadata[n].k)]_vars

\* a second run has ended: two tasks recorded their datasets while their
\* writes of metadata.json overlapped, and the entry of the third dataset is
\* the loaded one
C20_Witness ==
  /\ run = 2
  /\ mainPc = "crashed_task"
  /\ Len(metadata) = 3
  /\ \E i, j, k \in Tasks :
       /\ tpc[i] = "raised_dump"
       /\ tpc[j] = "downloaded"
       /\ tpc[k] = "raised_type"
       /\ GetItem(metadata, listing[k].id).kind = "str"
       /\ GetItem(metadata, listing[i].id) = strptime(ApiText(remote[i]))
       /\ GetItem(metadata, listing[j].id) = strptime(ApiText(remote[j]))

====
